---- MODULE Spec2Model ----
(***************************************************************************)
(* A model of the PDF converter service of src/main.py: the four           *)
(* conversion endpoints (pdf-to-docx, pdf-to-excel, pdf-to-ppt,            *)
(* pdf-to-image), their scratch-directory lifecycle, the spreadsheet       *)
(* emitter and the line clusterer.                                         *)
(*                                                                         *)
(* Coordinates are integers.  The source divides by 2 and multiplies by    *)
(* 0.1 and 0.6 on floats; the model compares the same quantities after     *)
(* clearing the denominators, so a comparison is decided exactly.          *)
(***************************************************************************)
EXTENDS Integers, Sequences, FiniteSets, TLC

VARIABLES
    \* the request
    endpoint, filename_pdf, file_size, doc,
    \* the handler
    pc, tmp_dir, files, outcome, background_tasks, response,
    prim_failed, fatal_failed,
    \* pdf-to-ppt
    ops, slides,
    \* pdf-to-image
    zipf,
    \* pdf-to-excel (page_i also walks the pages of pdf-to-image)
    page_i, page_elements, el_i, current_excel_row, worksheet,
    \* cluster_words_into_lines applied to a list of words and to a permutation of it
    cl_words, cl_perm, cl_lines, cl_perm_lines, cl_pc

reqVars == <<endpoint, filename_pdf, file_size, doc>>
handlerVars == <<pc, tmp_dir, files, outcome, background_tasks, response, prim_failed, fatal_failed>>
pptVars == <<ops, slides>>
excelVars == <<page_i, page_elements, el_i, current_excel_row, worksheet>>
clusterVars == <<cl_words, cl_perm, cl_lines, cl_perm_lines, cl_pc>>
vars == <<reqVars, handlerVars, pptVars, zipf, excelVars, clusterVars>>

----------------------------------------------------------------------------
(* Bounds of the model *)

MaxClusterWords == 3
MaxPages == 2
MaxWords == 2
MaxTables == 2

----------------------------------------------------------------------------
(* Helpers *)

SeqUpTo(S, n) == UNION {[1..k -> S] : k \in 0..n}

Abs(x) == IF x < 0 THEN 0 - x ELSE x

MinOf(S) == CHOOSE x \in S : \A y \in S : x <= y

MaxOf(S) == CHOOSE x \in S : \A y \in S : y <= x

Front(s) == SubSeq(s, 1, Len(s) - 1)

Last(s) == s[Len(s)]

RECURSIVE Concat(_)
Concat(ss) == IF ss = <<>> THEN <<>> ELSE Head(ss) \o Concat(Tail(ss))

----------------------------------------------------------------------------
(* Python's sorted / list.sort: stable, ascending by the key *)

RECURSIVE InsertByTop(_, _)
InsertByTop(x, s) ==
    IF s = <<>> THEN <<x>>
    ELSE IF Last(s).top <= x.top THEN Append(s, x)
    ELSE Append(InsertByTop(x, Front(s)), Last(s))

RECURSIVE SortedByTop(_)
SortedByTop(s) ==
    IF s = <<>> THEN <<>> ELSE InsertByTop(Last(s), SortedByTop(Front(s)))

RECURSIVE InsertByX0(_, _)
InsertByX0(x, s) ==
    IF s = <<>> THEN <<x>>
    ELSE IF Last(s).x0 <= x.x0 THEN Append(s, x)
    ELSE Append(InsertByX0(x, Front(s)), Last(s))

RECURSIVE SortedByX0(_)
SortedByX0(s) ==
    IF s = <<>> THEN <<>> ELSE InsertByX0(Last(s), SortedByX0(Front(s)))

----------------------------------------------------------------------------
(* cluster_words_into_lines *)

tolerance == 3

\* a mutant of sorted_words: the words are walked in input order
unsorted_words(words) == words

sorted_words(words) == SortedByTop(words)

\* a mutant of joins_line: a difference equal to the tolerance joins too
joins_line_inclusive(word, prev_word, tol) == Abs(word.top - prev_word.top) <= tol

\* the test of line 131: the word joins the current line
joins_line(word, prev_word, tol) == Abs(word.top - prev_word.top) < tol

RECURSIVE WalkWords(_, _, _, _, _)
WalkWords(sw, i, current_line, lines, tol) ==
    IF i > Len(sw) THEN Append(lines, current_line)
    ELSE IF joins_line(sw[i], Last(current_line), tol)
         THEN WalkWords(sw, i + 1, Append(current_line, sw[i]), lines, tol)
         ELSE WalkWords(sw, i + 1, <<sw[i]>>, Append(lines, current_line), tol)

final_line(unsorted_line) ==
    LET line == SortedByX0(unsorted_line)
        x0 == MinOf({line[k].x0 : k \in DOMAIN line})
        top == MinOf({line[k].top : k \in DOMAIN line})
        x1 == MaxOf({line[k].x1 : k \in DOMAIN line})
        bottom == MaxOf({line[k].bottom : k \in DOMAIN line})
    IN  [text |-> [k \in DOMAIN line |-> line[k].text],
         bbox |-> <<x0, top, x1, bottom>>,
         top |-> top, x0 |-> x0, x1 |-> x1]

cluster_words_into_lines(words, tol) ==
    IF words = <<>> THEN <<>>
    ELSE LET sw == sorted_words(words)
             lines == WalkWords(sw, 2, <<sw[1]>>, <<>>, tol)
         IN  [k \in DOMAIN lines |-> final_line(lines[k])]

----------------------------------------------------------------------------
(* Words: the text of a word is its position in the input, so that a word   *)
(* is identified in the output                                              *)

MakeWords(geoms) ==
    [k \in DOMAIN geoms |->
        [text |-> k, x0 |-> geoms[k][1], top |-> geoms[k][2],
         x1 |-> geoms[k][3], bottom |-> geoms[k][4]]]

ClusterGeoms == {<<x, t, x + 4, t + 2>> : x \in {0, 5}, t \in {0, 2, 5, 6}}

ClusterInputs == {MakeWords(g) : g \in SeqUpTo(ClusterGeoms, MaxClusterWords)}

----------------------------------------------------------------------------
(* pdf-to-excel: the pure parts *)

is_inside_table(word_bbox, table_bboxes) ==
    LET wx0 == word_bbox[1]
        wtop == word_bbox[2]
        wx1 == word_bbox[3]
        wbottom == word_bbox[4]
    IN  \E k \in DOMAIN table_bboxes :
            LET tbox == table_bboxes[k]
            IN  /\ 2 * tbox[1] <= wx0 + wx1
                /\ wx0 + wx1 <= 2 * tbox[3]
                /\ 2 * tbox[2] <= wtop + wbottom
                /\ wtop + wbottom <= 2 * tbox[4]

RECURSIVE non_table_words(_, _)
non_table_words(words, table_bboxes) ==
    IF words = <<>> THEN <<>>
    ELSE LET w == Head(words)
             rest == non_table_words(Tail(words), table_bboxes)
         IN  IF is_inside_table(<<w.x0, w.top, w.x1, w.bottom>>, table_bboxes)
             THEN rest ELSE <<w>> \o rest

\* t.extract() of a table: its data, or a failure when the table is broken
extract_fails(t) == t.broken

\* lines 184-187: the column count recorded for a table
col_count(t) ==
    IF extract_fails(t) THEN 1
    ELSE IF t.rows > 0 THEN t.cols ELSE 1

\* lines 176-192: the element sequence of a page
build_page_elements(page) ==
    LET tables == page.tables
        table_bboxes == [k \in DOMAIN tables |-> tables[k].bbox]
        text_lines == cluster_words_into_lines(
                          non_table_words(page.words, table_bboxes), tolerance)
        table_els == [k \in DOMAIN tables |->
                         [type |-> "table", top |-> tables[k].bbox[2],
                          obj |-> tables[k], cols |-> col_count(tables[k])]]
        text_els == [k \in DOMAIN text_lines |->
                         [type |-> "text", top |-> text_lines[k].top,
                          obj |-> text_lines[k], cols |-> 0]]
    IN  SortedByTop(table_els \o text_els)

\* a mutant of is_centered: the comparison of line 199 made non-strict
is_centered_inclusive(line, page_width) ==
    10 * Abs((line.x0 + line.x1) - page_width) <= 2 * page_width

\* line 199: abs(text_center - page_width / 2) < page_width * 0.1
is_centered(line, page_width) ==
    10 * Abs((line.x0 + line.x1) - page_width) < 2 * page_width

\* line 208: line['x0'] > page_width * 0.6
is_right(line, page_width) == 10 * line.x0 > 6 * page_width

\* lines 199-211: the horizontal alignment of a text line
alignment(line, page_width) ==
    IF is_centered(line, page_width) THEN "center"
    ELSE IF is_right(line, page_width) THEN "right"
    ELSE "left"

\* a mutant of target_merge_col: the scan does not stop at the first table
last_table_cols(page_els, i) ==
    LET later == {j \in (i + 1)..Len(page_els) : page_els[j].type = "table"}
    IN  IF later = {} THEN 1 ELSE page_els[MaxOf(later)].cols

\* the loop of lines 202-205: the column count of the first table after element i, or 1
RECURSIVE first_table_cols(_, _)
first_table_cols(page_els, i) ==
    IF i >= Len(page_els) THEN 1
    ELSE IF page_els[i + 1].type = "table" THEN page_els[i + 1].cols
    ELSE first_table_cols(page_els, i + 1)

\* lines 201-205
target_merge_col(page_els, i) == first_table_cols(page_els, i)

\* lines 197-211: the row written for a text line
text_row(page_els, i, page_width, src) ==
    LET line == page_els[i].obj
        a == alignment(line, page_width)
        k == target_merge_col(page_els, i)
    IN  [kind |-> "text", src |-> src, value |-> line.text, cols |-> 1,
         horizontal |-> a,
         vertical |-> IF a = "center" THEN "center" ELSE "none",
         merged_to |-> IF a = "center" /\ k > 1 THEN k ELSE 1,
         border |-> FALSE, wrap_text |-> FALSE, bold |-> FALSE, fill |-> FALSE]

\* a mutant of is_header: the header style lands on the second row
is_second_row(r_idx) == r_idx = 1

\* line 223
is_header(r_idx) == r_idx = 0

\* lines 222-230: the row written for row r_idx (from 0) of a table
table_row(t, r_idx, src) ==
    [kind |-> "table", src |-> src, value |-> <<>>, cols |-> t.cols,
     horizontal |-> IF is_header(r_idx) THEN "center" ELSE "none",
     vertical |-> IF is_header(r_idx) THEN "center" ELSE "top",
     merged_to |-> 1,
     border |-> TRUE, wrap_text |-> TRUE,
     bold |-> is_header(r_idx), fill |-> is_header(r_idx)]

\* a mutant of table_rows: the table is written from the top of the sheet
table_rows_from_top(start_row, n) == 1 .. n

\* lines 218-222: the rows of the sheet a table of n rows is written to
table_rows(start_row, n) == start_row .. (start_row + n) - 1

----------------------------------------------------------------------------
(* pdf-to-ppt: the steps of lines 285-389, in the order the loops take them *)

\* lines 359-361: a span of blanks is skipped unless it is a single space
keeps_span(span) == span.kind # "blank"

span_ops(span) ==
    IF keeps_span(span) THEN <<"add_run", "size", "colour", "style">> ELSE <<>>

line_ops(line) ==
    <<"textbox">> \o Concat([k \in DOMAIN line.spans |-> span_ops(line.spans[k])])

block_ops(b) ==
    IF b.type = 1 THEN <<"img_write", "img_place">>
    ELSE IF b.type = 0 THEN Concat([k \in DOMAIN b.lines |-> line_ops(b.lines[k])])
    ELSE <<>>

page_ops(page) ==
    <<"add_slide">> \o Concat([k \in DOMAIN page.blocks |-> block_ops(page.blocks[k])])

doc_ops(d) == Concat([k \in DOMAIN d |-> page_ops(d[k])])

EmptySlide == [pictures |-> 0, textboxes |-> 0, runs |-> 0]

AddPicture(ss) == [ss EXCEPT ![Len(ss)].pictures = @ + 1]

AddTextbox(ss) == [ss EXCEPT ![Len(ss)].textboxes = @ + 1]

AddRun(ss) == [ss EXCEPT ![Len(ss)].runs = @ + 1]

----------------------------------------------------------------------------
(* pdf-to-image *)

\* a mutant of img_name: every page is saved and archived under one name
img_name_fixed(i) == 1

\* line 426: page_{i+1}, i counted from 0
img_name(i) == i + 1

----------------------------------------------------------------------------
(* The requests *)

MAX_FILE_SIZE == 25 * 1024 * 1024

Endpoints == {"docx", "excel", "ppt", "image"}

\* a mutant of validate_file: the size is not looked at
validate_name_only(is_pdf, size) == IF ~is_pdf THEN "400" ELSE "ok"

validate_file(is_pdf, size) ==
    IF ~is_pdf THEN "400"
    ELSE IF size > MAX_FILE_SIZE THEN "400"
    ELSE "ok"

FileSizes == {MAX_FILE_SIZE - 1, MAX_FILE_SIZE, MAX_FILE_SIZE + 1}

BlankPage == [width |-> 20, tables |-> <<>>, words |-> <<>>, blocks |-> <<>>]

\* pdf-to-docx and pdf-to-image read the page count only
PlainDocs == {[k \in 1..n |-> BlankPage] : n \in 0..MaxPages}

ImageBlock == [type |-> 1, lines |-> <<>>]

TextBlock(lines) == [type |-> 0, lines |-> lines]

WordSpan == [kind |-> "word"]

BlankSpan == [kind |-> "blank"]

SpaceSpan == [kind |-> "space"]

PptPages ==
    {[BlankPage EXCEPT !.blocks = <<ImageBlock, TextBlock(<<[spans |-> <<WordSpan>>]>>)>>],
     [BlankPage EXCEPT !.blocks = <<TextBlock(<<[spans |-> <<BlankSpan, SpaceSpan>>]>>)>>],
     BlankPage}

PptDocs == SeqUpTo(PptPages, MaxPages)

\* word boxes <<x0, top, x1, bottom>> on a page 20 wide whose tables lie at
\* tops 10, 20, ..: a centered word below the tables, a centered word above
\* them, a word inside the first table, a word at the 0.10 boundary, a word
\* at the 0.6 boundary, a right word and a left word
ExcelWordGeoms ==
    << <<8, 40, 12, 42>>, <<8, 0, 12, 2>>, <<8, 11, 12, 13>>, <<10, 0, 14, 2>>,
       <<12, 5, 14, 7>>, <<14, 0, 16, 2>>, <<0, 0, 4, 2>> >>

RECURSIVE PickSeq(_, _, _)
PickSeq(s, S, i) ==
    IF i > Len(s) THEN <<>>
    ELSE (IF i \in S THEN <<s[i]>> ELSE <<>>) \o PickSeq(s, S, i + 1)

\* rows, cols, broken
TableKinds ==
    {[rows |-> 0, cols |-> 2, broken |-> FALSE], [rows |-> 1, cols |-> 1, broken |-> FALSE],
     [rows |-> 2, cols |-> 3, broken |-> FALSE], [rows |-> 2, cols |-> 2, broken |-> TRUE]}

MakeTables(kinds) ==
    [k \in DOMAIN kinds |->
        [bbox |-> <<0, 10 * k, 20, 10 * k + 6>>, rows |-> kinds[k].rows,
         cols |-> kinds[k].cols, broken |-> kinds[k].broken]]

ExcelPageOf(kinds, S) ==
    [BlankPage EXCEPT !.tables = MakeTables(kinds),
                      !.words = MakeWords(PickSeq(ExcelWordGeoms, S, 1))]

ExcelPages ==
    {ExcelPageOf(kinds, S) :
        kinds \in SeqUpTo(TableKinds, MaxTables),
        S \in {T \in SUBSET DOMAIN ExcelWordGeoms : Cardinality(T) <= MaxWords}}

SmallExcelPages ==
    {BlankPage,
     ExcelPageOf(<<[rows |-> 2, cols |-> 3, broken |-> FALSE]>>, {2}),
     ExcelPageOf(<<>>, {7})}

ExcelDocs == {<<p>> : p \in ExcelPages} \cup SeqUpTo(SmallExcelPages, MaxPages)

DocsOf(e) ==
    IF e = "excel" THEN ExcelDocs
    ELSE IF e = "ppt" THEN PptDocs
    ELSE PlainDocs

NoResponse == [kind |-> "none", content |-> <<>>]

----------------------------------------------------------------------------
(* The handlers *)

IdleCluster ==
    /\ cl_words = <<>> /\ cl_perm = <<>> /\ cl_lines = <<>> /\ cl_perm_lines = <<>>
    /\ cl_pc = "idle"

Init ==
    /\ endpoint \in Endpoints
    /\ filename_pdf \in BOOLEAN
    /\ file_size \in FileSizes
    /\ doc \in DocsOf(endpoint)
    /\ pc = "validate"
    /\ tmp_dir = "none"
    /\ files = {}
    /\ outcome = "none"
    /\ background_tasks = <<>>
    /\ response = NoResponse
    /\ prim_failed = FALSE
    /\ fatal_failed = FALSE
    /\ ops = <<>>
    /\ slides = <<>>
    /\ zipf = <<>>
    /\ page_i = 1
    /\ page_elements = <<>>
    /\ el_i = 1
    /\ current_excel_row = 1
    /\ worksheet = <<>>
    /\ IdleCluster

\* an exception inside the try block, on its way to the except clause; is_prim
\* tells a failure on one image, text run or table from any other
Raise(is_prim) ==
    /\ pc' = "except"
    /\ prim_failed' = (prim_failed \/ is_prim)
    /\ fatal_failed' = (fatal_failed \/ ~is_prim)

\* lines 83, 153, 259, 412
Validate ==
    /\ pc = "validate"
    /\ IF validate_file(filename_pdf, file_size) = "ok"
       THEN pc' = "mkdtemp" /\ UNCHANGED outcome
       ELSE pc' = "done" /\ outcome' = "400"
    /\ UNCHANGED <<reqVars, tmp_dir, files, background_tasks, response, prim_failed,
                   fatal_failed, pptVars, zipf, excelVars, clusterVars>>

\* lines 85-88, 154-157, 260-263, 413-416
Mkdtemp ==
    /\ pc = "mkdtemp"
    /\ tmp_dir' = "exists"
    /\ pc' = "save_upload"
    /\ UNCHANGED <<reqVars, files, outcome, background_tasks, response, prim_failed,
                   fatal_failed, pptVars, zipf, excelVars, clusterVars>>

\* lines 91-92, 160-161, 266-267, 419-420
SaveUpload ==
    /\ pc = "save_upload"
    /\ \E ok \in BOOLEAN :
        IF ok
        THEN /\ files' = files \cup {"pdf"}
             /\ pc' = "convert"
             /\ UNCHANGED <<prim_failed, fatal_failed>>
        ELSE /\ files' \in {files, files \cup {"pdf"}}
             /\ Raise(FALSE)
    /\ UNCHANGED <<reqVars, tmp_dir, outcome, background_tasks, response,
                   pptVars, zipf, excelVars, clusterVars>>

\* line 95
DocxOpen ==
    /\ pc = "convert" /\ endpoint = "docx"
    /\ \E ok \in BOOLEAN :
        IF ok
        THEN /\ pc' = "emit"
             /\ UNCHANGED <<prim_failed, fatal_failed>>
        ELSE Raise(FALSE)
    /\ UNCHANGED <<reqVars, tmp_dir, files, outcome, background_tasks, response,
                   pptVars, zipf, excelVars, clusterVars>>

\* line 96
DocxConvert ==
    /\ pc = "emit" /\ endpoint = "docx"
    /\ \E ok \in BOOLEAN :
        IF ok
        THEN /\ files' = files \cup {"out"}
             /\ pc' = "close"
             /\ UNCHANGED <<prim_failed, fatal_failed>>
        ELSE /\ Raise(FALSE)
             /\ UNCHANGED files
    /\ UNCHANGED <<reqVars, tmp_dir, outcome, background_tasks, response,
                   pptVars, zipf, excelVars, clusterVars>>

\* line 97
DocxClose ==
    /\ pc = "close" /\ endpoint = "docx"
    /\ \E ok \in BOOLEAN :
        IF ok
        THEN /\ pc' = "schedule"
             /\ UNCHANGED <<prim_failed, fatal_failed>>
        ELSE Raise(FALSE)
    /\ UNCHANGED <<reqVars, tmp_dir, files, outcome, background_tasks, response,
                   pptVars, zipf, excelVars, clusterVars>>

\* lines 163-172
ExcelOpen ==
    /\ pc = "convert" /\ endpoint = "excel"
    /\ \E ok \in BOOLEAN :
        IF ok
        THEN /\ pc' = "page"
             /\ page_i' = 1
             /\ current_excel_row' = 1
             /\ worksheet' = <<>>
             /\ UNCHANGED <<prim_failed, fatal_failed>>
        ELSE /\ Raise(FALSE)
             /\ UNCHANGED <<page_i, current_excel_row, worksheet>>
    /\ UNCHANGED <<reqVars, tmp_dir, files, outcome, background_tasks, response,
                   pptVars, zipf, page_elements, el_i, clusterVars>>

\* lines 174-192
ExcelPage ==
    /\ pc = "page" /\ endpoint = "excel" /\ page_i <= Len(doc)
    /\ \E ok \in BOOLEAN :
        IF ok
        THEN /\ page_elements' = build_page_elements(doc[page_i])
             /\ el_i' = 1
             /\ pc' = "element"
             /\ prim_failed' = (prim_failed \/
                    \E k \in DOMAIN doc[page_i].tables : extract_fails(doc[page_i].tables[k]))
             /\ UNCHANGED fatal_failed
        ELSE /\ Raise(FALSE)
             /\ UNCHANGED <<page_elements, el_i>>
    /\ UNCHANGED <<reqVars, tmp_dir, files, outcome, background_tasks, response,
                   pptVars, zipf, page_i, current_excel_row, worksheet, clusterVars>>

\* lines 195-212
ExcelText ==
    /\ pc = "element" /\ endpoint = "excel" /\ el_i <= Len(page_elements)
    /\ page_elements[el_i].type = "text"
    /\ worksheet' = (current_excel_row :>
                        text_row(page_elements, el_i, doc[page_i].width, <<page_i, el_i>>))
                    @@ worksheet
    /\ current_excel_row' = current_excel_row + 1
    /\ el_i' = el_i + 1
    /\ UNCHANGED <<reqVars, handlerVars, pptVars, zipf, page_i, page_elements, clusterVars>>

\* lines 213-231
ExcelTable ==
    /\ pc = "element" /\ endpoint = "excel" /\ el_i <= Len(page_elements)
    /\ page_elements[el_i].type = "table"
    /\ LET t == page_elements[el_i].obj
           start_row == current_excel_row
           end_row == start_row + t.rows
       IN  IF extract_fails(t)
           THEN /\ Raise(TRUE)
                /\ UNCHANGED <<worksheet, current_excel_row, el_i>>
           ELSE IF t.rows = 0
           THEN /\ el_i' = el_i + 1
                /\ UNCHANGED <<worksheet, current_excel_row, pc, prim_failed, fatal_failed>>
           ELSE /\ worksheet' =
                       [r \in table_rows(start_row, t.rows) |->
                           table_row(t, r - start_row, <<page_i, el_i>>)] @@ worksheet
                /\ current_excel_row' = end_row + 1
                /\ el_i' = el_i + 1
                /\ UNCHANGED <<pc, prim_failed, fatal_failed>>
    /\ UNCHANGED <<reqVars, tmp_dir, files, outcome, background_tasks, response,
                   pptVars, zipf, page_i, page_elements, clusterVars>>

\* line 232
ExcelPageEnd ==
    /\ pc = "element" /\ endpoint = "excel" /\ el_i > Len(page_elements)
    /\ current_excel_row' = current_excel_row + 2
    /\ page_i' = page_i + 1
    /\ pc' = "page"
    /\ UNCHANGED <<reqVars, tmp_dir, files, outcome, background_tasks, response,
                   prim_failed, fatal_failed, pptVars, zipf, page_elements, el_i,
                   worksheet, clusterVars>>

\* lines 234-243 and the exit of the two with blocks, which saves the workbook
ExcelClose ==
    /\ pc = "page" /\ endpoint = "excel" /\ page_i > Len(doc)
    /\ \E ok \in BOOLEAN :
        IF ok
        THEN /\ files' = files \cup {"out"}
             /\ pc' = "schedule"
             /\ UNCHANGED <<prim_failed, fatal_failed>>
        ELSE /\ Raise(FALSE)
             /\ UNCHANGED files
    /\ UNCHANGED <<reqVars, tmp_dir, outcome, background_tasks, response,
                   pptVars, zipf, excelVars, clusterVars>>

\* lines 269-283
PptOpen ==
    /\ pc = "convert" /\ endpoint = "ppt"
    /\ \E ok \in BOOLEAN :
        IF ok
        THEN /\ ops' = doc_ops(doc)
             /\ slides' = <<>>
             /\ pc' = "emit"
             /\ UNCHANGED <<prim_failed, fatal_failed>>
        ELSE /\ Raise(FALSE)
             /\ UNCHANGED <<ops, slides>>
    /\ UNCHANGED <<reqVars, tmp_dir, files, outcome, background_tasks, response,
                   zipf, excelVars, clusterVars>>

PptAt(op) == pc = "emit" /\ endpoint = "ppt" /\ ops # <<>> /\ Head(ops) = op

PptRest == <<reqVars, tmp_dir, outcome, background_tasks, response, zipf, excelVars, clusterVars>>

\* lines 285-297
PptPage ==
    /\ PptAt("add_slide")
    /\ \E ok \in BOOLEAN :
        IF ok
        THEN /\ slides' = Append(slides, EmptySlide)
             /\ ops' = Tail(ops)
             /\ UNCHANGED <<pc, prim_failed, fatal_failed>>
        ELSE /\ Raise(FALSE)
             /\ UNCHANGED <<ops, slides>>
    /\ UNCHANGED <<PptRest, files>>

\* lines 302-311: outside any try of the loop
PptImageWrite ==
    /\ PptAt("img_write")
    /\ \E ok \in BOOLEAN :
        IF ok
        THEN /\ files' = files \cup {"img"}
             /\ ops' = Tail(ops)
             /\ UNCHANGED <<pc, prim_failed, fatal_failed>>
        ELSE /\ Raise(TRUE)
             /\ UNCHANGED <<ops, files>>
    /\ UNCHANGED <<PptRest, slides>>

\* lines 314-322: the failure is logged and the picture skipped
PptImagePlace ==
    /\ PptAt("img_place")
    /\ \E ok \in BOOLEAN :
        IF ok
        THEN /\ slides' = AddPicture(slides)
             /\ UNCHANGED prim_failed
        ELSE /\ prim_failed' = TRUE
             /\ UNCHANGED slides
    /\ ops' = Tail(ops)
    /\ UNCHANGED <<PptRest, files, pc, fatal_failed>>

\* lines 329-353
PptTextbox ==
    /\ PptAt("textbox")
    /\ \E ok \in BOOLEAN :
        IF ok
        THEN /\ slides' = AddTextbox(slides)
             /\ ops' = Tail(ops)
             /\ UNCHANGED <<pc, prim_failed, fatal_failed>>
        ELSE /\ Raise(TRUE)
             /\ UNCHANGED <<ops, slides>>
    /\ UNCHANGED <<PptRest, files>>

\* lines 363-364
PptRun ==
    /\ PptAt("add_run")
    /\ \E ok \in BOOLEAN :
        IF ok
        THEN /\ slides' = AddRun(slides)
             /\ ops' = Tail(ops)
             /\ UNCHANGED <<pc, prim_failed, fatal_failed>>
        ELSE /\ Raise(TRUE)
             /\ UNCHANGED <<ops, slides>>
    /\ UNCHANGED <<PptRest, files>>

\* line 367
PptRunSize ==
    /\ PptAt("size")
    /\ \E ok \in BOOLEAN :
        IF ok
        THEN /\ ops' = Tail(ops)
             /\ UNCHANGED <<pc, prim_failed, fatal_failed>>
        ELSE /\ Raise(TRUE)
             /\ UNCHANGED ops
    /\ UNCHANGED <<PptRest, files, slides>>

\* lines 373-381: a failure falls back to black, which is set outside any try
PptRunColour ==
    /\ PptAt("colour")
    /\ \E ok \in BOOLEAN, fallback_ok \in BOOLEAN :
        IF ok
        THEN /\ ops' = Tail(ops)
             /\ UNCHANGED <<pc, prim_failed, fatal_failed>>
        ELSE IF fallback_ok
        THEN /\ ops' = Tail(ops)
             /\ prim_failed' = TRUE
             /\ UNCHANGED <<pc, fatal_failed>>
        ELSE /\ Raise(TRUE)
             /\ UNCHANGED ops
    /\ UNCHANGED <<PptRest, files, slides>>

\* lines 384-389
PptRunStyle ==
    /\ PptAt("style")
    /\ \E ok \in BOOLEAN :
        IF ok
        THEN /\ ops' = Tail(ops)
             /\ UNCHANGED <<pc, prim_failed, fatal_failed>>
        ELSE /\ Raise(TRUE)
             /\ UNCHANGED ops
    /\ UNCHANGED <<PptRest, files, slides>>

\* lines 391-392
PptSave ==
    /\ pc = "emit" /\ endpoint = "ppt" /\ ops = <<>>
    /\ \E ok \in BOOLEAN :
        IF ok
        THEN /\ files' = files \cup {"out"}
             /\ pc' = "schedule"
             /\ UNCHANGED <<prim_failed, fatal_failed>>
        ELSE /\ Raise(FALSE)
             /\ UNCHANGED files
    /\ UNCHANGED <<PptRest, ops, slides>>

ImageRest ==
    <<reqVars, tmp_dir, outcome, background_tasks, response, pptVars, page_elements,
      el_i, current_excel_row, worksheet, clusterVars>>

\* lines 422-423
ImageOpen ==
    /\ pc = "convert" /\ endpoint = "image"
    /\ \E ok \in BOOLEAN :
        IF ok
        THEN /\ files' = files \cup {"out"}
             /\ zipf' = <<>>
             /\ page_i' = 1
             /\ pc' = "emit"
             /\ UNCHANGED <<prim_failed, fatal_failed>>
        ELSE /\ Raise(FALSE)
             /\ UNCHANGED <<files, zipf, page_i>>
    /\ UNCHANGED ImageRest

\* lines 424-429
ImagePage ==
    /\ pc = "emit" /\ endpoint = "image" /\ page_i <= Len(doc)
    /\ \E ok \in BOOLEAN :
        IF ok
        THEN /\ files' = files \cup {"img"}
             /\ zipf' = Append(zipf, img_name(page_i - 1))
             /\ page_i' = page_i + 1
             /\ UNCHANGED <<pc, prim_failed, fatal_failed>>
        ELSE /\ Raise(FALSE)
             /\ UNCHANGED <<files, zipf, page_i>>
    /\ UNCHANGED ImageRest

\* the exit of the with block of line 423, and line 431
ImageClose ==
    /\ pc = "emit" /\ endpoint = "image" /\ page_i > Len(doc)
    /\ \E ok \in BOOLEAN :
        IF ok
        THEN /\ pc' = "schedule"
             /\ UNCHANGED <<prim_failed, fatal_failed>>
        ELSE Raise(FALSE)
    /\ UNCHANGED <<ImageRest, files, zipf, page_i>>

\* lines 99, 245, 393, 432
Schedule ==
    /\ pc = "schedule"
    /\ \E ok \in BOOLEAN :
        IF ok
        THEN /\ background_tasks' = Append(background_tasks, "cleanup_folder")
             /\ pc' = "respond"
             /\ UNCHANGED <<prim_failed, fatal_failed>>
        ELSE /\ Raise(FALSE)
             /\ UNCHANGED background_tasks
    /\ UNCHANGED <<reqVars, tmp_dir, files, outcome, response, pptVars, zipf,
                   excelVars, clusterVars>>

\* lines 101-105, 246, 394-398, 433: the file the response carries
response_of(e) ==
    IF e = "docx" THEN [kind |-> "docx", content |-> <<>>]
    ELSE IF e = "excel" THEN [kind |-> "xlsx", content |-> worksheet]
    ELSE IF e = "ppt" THEN [kind |-> "pptx", content |-> slides]
    ELSE [kind |-> "zip", content |-> zipf]

Respond ==
    /\ pc = "respond"
    /\ response' = response_of(endpoint)
    /\ outcome' = "ok"
    /\ pc' = "background"
    /\ UNCHANGED <<reqVars, tmp_dir, files, background_tasks, prim_failed, fatal_failed,
                   pptVars, zipf, excelVars, clusterVars>>

\* lines 53-59: rmtree deletes the folder, or fails and the failure is logged
cleanup_folder(rm_ok) ==
    IF tmp_dir = "exists" /\ rm_ok
    THEN tmp_dir' = "deleted" /\ files' = {}
    ELSE UNCHANGED <<tmp_dir, files>>

\* the task of lines 99, 245, 393, 432, run after the response is sent
Background ==
    /\ pc = "background"
    /\ background_tasks # <<>>
    /\ \E rm_ok \in BOOLEAN : cleanup_folder(rm_ok)
    /\ background_tasks' = Tail(background_tasks)
    /\ pc' = "done"
    /\ UNCHANGED <<reqVars, outcome, response, prim_failed, fatal_failed,
                   pptVars, zipf, excelVars, clusterVars>>

\* lines 107-110, 248-251, 400-403, 435-438
Except ==
    /\ pc = "except"
    /\ \E rm_ok \in BOOLEAN : cleanup_folder(rm_ok)
    /\ outcome' = "500"
    /\ pc' = "done"
    /\ UNCHANGED <<reqVars, background_tasks, response, prim_failed, fatal_failed,
                   pptVars, zipf, excelVars, clusterVars>>

Next ==
    \/ Validate \/ Mkdtemp \/ SaveUpload
    \/ DocxOpen \/ DocxConvert \/ DocxClose
    \/ ExcelOpen \/ ExcelPage \/ ExcelText \/ ExcelTable \/ ExcelPageEnd \/ ExcelClose
    \/ PptOpen \/ PptPage \/ PptImageWrite \/ PptImagePlace \/ PptTextbox
    \/ PptRun \/ PptRunSize \/ PptRunColour \/ PptRunStyle \/ PptSave
    \/ ImageOpen \/ ImagePage \/ ImageClose
    \/ Schedule \/ Respond \/ Background \/ Except

Spec == Init /\ [][Next]_vars

----------------------------------------------------------------------------
(* cluster_words_into_lines on a list of words and on a permutation of it *)

InitCluster ==
    /\ endpoint = "excel"
    /\ filename_pdf = TRUE
    /\ file_size = 0
    /\ doc = <<>>
    /\ pc = "done"
    /\ tmp_dir = "none"
    /\ files = {}
    /\ outcome = "none"
    /\ background_tasks = <<>>
    /\ response = NoResponse
    /\ prim_failed = FALSE
    /\ fatal_failed = FALSE
    /\ ops = <<>>
    /\ slides = <<>>
    /\ zipf = <<>>
    /\ page_i = 1
    /\ page_elements = <<>>
    /\ el_i = 1
    /\ current_excel_row = 1
    /\ worksheet = <<>>
    /\ cl_words \in ClusterInputs
    /\ cl_perm = cl_words
    /\ cl_lines = <<>>
    /\ cl_perm_lines = <<>>
    /\ cl_pc = "input"

ClusterPermute ==
    /\ cl_pc = "input"
    /\ \E p \in Permutations(DOMAIN cl_words) :
        cl_perm' = [k \in DOMAIN cl_words |-> cl_words[p[k]]]
    /\ cl_pc' = "permuted"
    /\ UNCHANGED <<reqVars, handlerVars, pptVars, zipf, excelVars, cl_words, cl_lines,
                   cl_perm_lines>>

ClusterRun ==
    /\ cl_pc = "permuted"
    /\ cl_lines' = cluster_words_into_lines(cl_words, tolerance)
    /\ cl_perm_lines' = cluster_words_into_lines(cl_perm, tolerance)
    /\ cl_pc' = "clustered"
    /\ UNCHANGED <<reqVars, handlerVars, pptVars, zipf, excelVars, cl_words, cl_perm>>

NextCluster == ClusterPermute \/ ClusterRun

SpecCluster == InitCluster /\ [][NextCluster]_vars

----------------------------------------------------------------------------
(* The claims *)

Finished == pc = "done"

Accepted == validate_file(filename_pdf, file_size) = "ok"

\* C1: a request that has made its scratch directory ends, on every exit
\* path, with the directory deleted.
C1_ScratchDeletedOnEveryExit == Finished => tmp_dir # "exists"

\* C2: an upload larger than MAX_FILE_SIZE is rejected with an error before
\* the scratch directory or any scratch file is made and before any
\* extraction step runs; the rejected request has no scratch storage.
C2_OversizeRejectedFirst ==
    file_size > MAX_FILE_SIZE =>
        /\ pc \in {"validate", "done"}
        /\ tmp_dir = "none"
        /\ files = {}
        /\ response = NoResponse
        /\ (Finished => outcome = "400")

C2_Witness ==
    /\ file_size > MAX_FILE_SIZE /\ filename_pdf
    /\ Finished /\ outcome = "400" /\ tmp_dir = "none"

\* C3: a failure on one image, text run or table is caught and the primitive
\* skipped; a request in which nothing else failed ends in a successful
\* response.
C3_PrimitiveFailureIsSkipped ==
    (Finished /\ prim_failed /\ ~fatal_failed) => outcome = "ok"

\* C4: a document of zero pages ends in an error outcome and returns no
\* output file, at every conversion endpoint.
C4_ZeroPagesIsAnError ==
    (Finished /\ Accepted /\ Len(doc) = 0) =>
        (outcome = "500" /\ response = NoResponse)

\* C5, as claimed: a successful pdf-to-image conversion of N >= 1 pages
\* returns the image file itself when N = 1 and a zip of N entries when N > 1.
C5_SinglePageIsBareImage ==
    (endpoint = "image" /\ outcome = "ok" /\ Len(doc) >= 1) =>
        IF Len(doc) = 1
        THEN response.kind = "image"
        ELSE response.kind = "zip" /\ Len(response.content) = Len(doc)

\* C5, amended: a successful pdf-to-image conversion of N >= 1 pages returns
\* a zip archive of exactly N entries, page_1 .. page_N in source order,
\* also when N = 1.
C5_ZipOfEveryPage ==
    (endpoint = "image" /\ outcome = "ok" /\ Len(doc) >= 1) =>
        /\ response.kind = "zip"
        /\ response.content = [k \in 1..Len(doc) |-> k]

C5_Witness ==
    /\ endpoint = "image" /\ Finished /\ outcome = "ok"
    /\ Len(doc) = 1 /\ response.kind = "zip" /\ Len(response.content) = 1

TextRows == {r \in DOMAIN worksheet : worksheet[r].kind = "text"}

\* the element a row of the sheet was written for, and its page
ElementsOfRow(r) == build_page_elements(doc[worksheet[r].src[1]])

LineOfRow(r) == ElementsOfRow(r)[worksheet[r].src[2]].obj

WidthOfRow(r) == doc[worksheet[r].src[1]].width

Centered(r) ==
    10 * Abs((LineOfRow(r).x0 + LineOfRow(r).x1) - WidthOfRow(r)) < 2 * WidthOfRow(r)

LaterTables(r) ==
    {j \in (worksheet[r].src[2] + 1)..Len(ElementsOfRow(r)) :
        ElementsOfRow(r)[j].type = "table"}

\* the column count of a table: that of the first row of its data, 1 without data
ColumnsOf(t) == IF t.broken \/ t.rows = 0 THEN 1 ELSE t.cols

FirstLaterColumns(r) == ColumnsOf(ElementsOfRow(r)[MinOf(LaterTables(r))].obj)

\* C6: a centered text line is merged across columns 1..k, k the column
\* count of the first table after it in its page's element sequence, when
\* k > 1; it is not merged when no table follows or k <= 1; a line that is
\* not centered is never merged.
C6_CenteredTitleMerge ==
    endpoint = "excel" =>
        \A r \in TextRows :
            IF Centered(r) /\ LaterTables(r) # {} /\ FirstLaterColumns(r) > 1
            THEN worksheet[r].merged_to = FirstLaterColumns(r)
            ELSE worksheet[r].merged_to = 1

C6_Witness ==
    /\ endpoint = "excel" /\ Finished /\ outcome = "ok"
    /\ \E r \in TextRows :
        /\ Centered(r)
        /\ Cardinality(LaterTables(r)) = 2
        /\ worksheet[r].merged_to = 3
        /\ ColumnsOf(ElementsOfRow(r)[MaxOf(LaterTables(r))].obj) = 1

WordIds(line) == {line.text[k] : k \in DOMAIN line.text}

LinesAsSets(lines) == {WordIds(lines[k]) : k \in DOMAIN lines}

X0Ascending(lines) ==
    \A k \in DOMAIN lines : \A m, n \in DOMAIN lines[k].text :
        m < n => cl_words[lines[k].text[m]].x0 <= cl_words[lines[k].text[n]].x0

\* C7: for every list of words and every permutation of it, two words with
\* the same top are in the same line, the partition into lines is the same,
\* and the words of a line are concatenated in ascending x0 order.
C7_ClusteringIgnoresInputOrder ==
    cl_pc = "clustered" =>
        /\ LinesAsSets(cl_lines) = LinesAsSets(cl_perm_lines)
        /\ UNION LinesAsSets(cl_perm_lines) = DOMAIN cl_words
        /\ \A a, b \in DOMAIN cl_words :
              cl_words[a].top = cl_words[b].top =>
                  \E L \in LinesAsSets(cl_perm_lines) : {a, b} \subseteq L
        /\ X0Ascending(cl_lines)
        /\ X0Ascending(cl_perm_lines)

C7_Witness ==
    /\ cl_pc = "clustered"
    /\ cl_perm # cl_words
    /\ Len(cl_lines) = 2
    /\ \E a, b \in DOMAIN cl_words :
        /\ a < b
        /\ cl_words[a].top = cl_words[b].top
        /\ cl_words[a].x0 > cl_words[b].x0
        /\ \E c \in DOMAIN cl_words : a < c /\ c < b /\ cl_words[c].top > cl_words[a].top + tolerance

NoFreeText(page) ==
    non_table_words(page.words, [k \in DOMAIN page.tables |-> page.tables[k].bbox]) = <<>>

OneTableOnly ==
    /\ endpoint = "excel" /\ outcome = "ok"
    /\ Len(doc) = 1 /\ Len(doc[1].tables) = 1 /\ NoFreeText(doc[1])
    /\ doc[1].tables[1].rows >= 1

\* C8: a single page holding one table of n >= 1 rows and no free text gives
\* a sheet whose populated rows are exactly 1..n; row 1 has the bold font,
\* the fill and centered alignment, rows 2..n the border and wrap only.
C8_OneTableSheet ==
    OneTableOnly =>
        LET n == doc[1].tables[1].rows
            sheet == response.content
        IN  /\ DOMAIN sheet = 1..n
            /\ \A r \in 1..n : sheet[r].kind = "table" /\ sheet[r].border /\ sheet[r].wrap_text
            /\ sheet[1].bold /\ sheet[1].fill /\ sheet[1].horizontal = "center"
            /\ \A r \in 2..n :
                  ~sheet[r].bold /\ ~sheet[r].fill /\ sheet[r].horizontal # "center"

C8_Witness ==
    /\ OneTableOnly /\ Finished
    /\ doc[1].tables[1].rows = 2
    /\ doc[1].words # <<>>
    /\ DOMAIN response.content = {1, 2}

RECURSIVE LineIndexOf(_, _, _)
LineIndexOf(lines, id, k) ==
    IF id \in WordIds(lines[k]) THEN k ELSE LineIndexOf(lines, id, k + 1)

\* the words in ascending top order, words of equal top in input order
WalkOrder == SortedByTop(cl_words)

StartsNewLine(i) ==
    LineIndexOf(cl_lines, WalkOrder[i].text, 1) # LineIndexOf(cl_lines, WalkOrder[i - 1].text, 1)

TopStep(i) == Abs(WalkOrder[i].top - WalkOrder[i - 1].top)

\* C9, as claimed: walking the words in ascending top order, a word starts a
\* new line exactly when its top differs from the previous word's top by
\* more than the tolerance; a difference equal to the tolerance keeps it in
\* the line.
C9_NewLineBeyondTolerance ==
    cl_pc = "clustered" =>
        \A i \in 2..Len(WalkOrder) : StartsNewLine(i) <=> (TopStep(i) > tolerance)

\* C9, amended: a word starts a new line exactly when its top differs from
\* the previous word's top by the tolerance or more; only a difference
\* strictly below the tolerance keeps it in the line.
C9_NewLineAtTolerance ==
    cl_pc = "clustered" =>
        \A i \in 2..Len(WalkOrder) : StartsNewLine(i) <=> (TopStep(i) >= tolerance)

C9_Witness ==
    /\ cl_pc = "clustered"
    /\ Len(WalkOrder) = 3
    /\ TopStep(2) = tolerance - 1 /\ ~StartsNewLine(2)
    /\ TopStep(3) = tolerance /\ StartsNewLine(3)

\* C10: a text line is centered iff |(x0+x1)/2 - pageWidth/2| < 0.10 *
\* pageWidth, else right-aligned iff x0 > 0.6 * pageWidth, else left-aligned;
\* a line at exactly a boundary falls to the next case.
C10_AlignmentOrder ==
    endpoint = "excel" =>
        \A r \in TextRows :
            LET line == LineOfRow(r)
                w == WidthOfRow(r)
                centered == 10 * Abs((line.x0 + line.x1) - w) < 2 * w
                right == 10 * line.x0 > 6 * w
                h == worksheet[r].horizontal
            IN  /\ h \in {"center", "right", "left"}
                /\ (h = "center") <=> centered
                /\ (h = "right") <=> (~centered /\ right)
                /\ (h = "left") <=> (~centered /\ ~right)

C10_Witness ==
    /\ endpoint = "excel" /\ Finished /\ outcome = "ok"
    /\ \E r, q \in TextRows :
        /\ 10 * Abs((LineOfRow(r).x0 + LineOfRow(r).x1) - WidthOfRow(r)) = 2 * WidthOfRow(r)
        /\ worksheet[r].horizontal = "left"
        /\ 10 * LineOfRow(q).x0 = 6 * WidthOfRow(q)
        /\ worksheet[q].horizontal = "left"

----------------------------------------------------------------------------
(* The row cursor of the spreadsheet target *)

RowsOf(p, i) == {r \in DOMAIN worksheet : worksheet[r].src = <<p, i>>}

\* the elements the loops of lines 174 and 194 have gone through
Emitted(p, i) ==
    IF pc = "element" THEN p < page_i \/ (p = page_i /\ i < el_i)
    ELSE IF pc = "page" THEN p < page_i
    ELSE pc \in {"schedule", "respond", "background"} \/ (Finished /\ outcome = "ok")

\* the handler has left the loops through an exception
Failing == pc = "except" \/ (Finished /\ outcome # "ok")

\* the rows an element of the sheet is due: one for a text line, n
\* consecutive ones for a table of n rows
RowsAsDue(el, rows) ==
    IF el.type = "text"
    THEN Cardinality(rows) = 1 /\ \A r \in rows : worksheet[r].kind = "text"
    ELSE /\ Cardinality(rows) = el.obj.rows
         /\ \A r \in rows : worksheet[r].kind = "table"
         /\ rows # {} => rows = MinOf(rows) .. MaxOf(rows)

\* rows lie in page order
RowsInPageOrder ==
    \A r, q \in DOMAIN worksheet :
        r < q => worksheet[r].src[1] <= worksheet[q].src[1]

\* within page p, whose elements are els, rows lie in element order, which
\* is ascending top order
RowsInTopOrder(p, els) ==
    \A r, q \in {u \in DOMAIN worksheet : worksheet[u].src[1] = p} :
        r < q =>
            LET i == worksheet[r].src[2]
                k == worksheet[q].src[2]
            IN  i <= k /\ els[i].top <= els[k].top

\* every element gone through has its rows, and no other element has any
PageRows(p, els) ==
    \A i \in DOMAIN els :
        IF Emitted(p, i) THEN RowsAsDue(els[i], RowsOf(p, i))
        ELSE IF Failing
             THEN RowsOf(p, i) = {} \/ RowsAsDue(els[i], RowsOf(p, i))
             ELSE RowsOf(p, i) = {}

RowCursorState ==
    endpoint = "excel" =>
        /\ \A r \in DOMAIN worksheet : r < current_excel_row
        /\ RowsInPageOrder
        /\ \A p \in DOMAIN doc :
              LET els == build_page_elements(doc[p])
              IN  PageRows(p, els) /\ RowsInTopOrder(p, els)

\* a step leaves every written row as it is and does not lower the cursor
RowCursorStep ==
    /\ current_excel_row' >= current_excel_row
    /\ \A r \in DOMAIN worksheet :
          r \in DOMAIN worksheet' /\ worksheet'[r] = worksheet[r]

\* C11: the row cursor never decreases; each text line takes one row and each
\* non-empty table of n rows takes n consecutive rows; the rows of distinct
\* elements are disjoint and lie in page order and, within a page, in
\* ascending top order; no element overwrites a row written earlier.
C11_RowCursor == [](RowCursorState) /\ [][RowCursorStep]_vars

C11_Witness ==
    /\ endpoint = "excel" /\ Finished /\ outcome = "ok"
    /\ Len(doc) = 2
    /\ \E r, q, u \in DOMAIN worksheet :
        /\ r < q /\ q < u
        /\ worksheet[r].kind = "text" /\ worksheet[r].src[1] = 1
        /\ worksheet[q].kind = "table" /\ worksheet[q].src[1] = 1
        /\ Cardinality(RowsOf(1, worksheet[q].src[2])) = 2
        /\ worksheet[u].kind = "text" /\ worksheet[u].src[1] = 2

====
